---- MODULE Spec2Model ----
(* Discrete probability distributions of nlandolfi/prob (src/core.go,      *)
(* the current version of the package, lines 265-609).                     *)
(*                                                                         *)
(* Probabilities are float64 in the source.  Here a probability is an      *)
(* integer number of units of 2^-22, so Certain is Scale units.  Every     *)
(* probability the model feeds to AddOutcome is a multiple of 4 units and  *)
(* every alpha a multiple of 1/4: on such values float64 addition and      *)
(* multiplication are exact, so the sums and the comparisons below are     *)
(* the ones the program makes.  Only Certain/|domain| is rounded (to the   *)
(* nearest unit instead of the nearest float64).                           *)
EXTENDS Integers, Sequences, FiniteSets, TLC

\* ---------------------------------------------------------------- bounds
\* outcomes are the integers 1..MaxOutcome
MaxOutcome == 2
\* NewUniformDiscrete is tried on the domains 1..k, k up to MaxUniform
MaxUniform == 4
\* size of the one large domain NewUniformDiscrete is tried on
BigDomain == 131072

\* ------------------------------------------------------------- constants
Scale == 2^22
Impossible == 0
Certain == Scale
\* x < 0.00001 on the grid: 0.00001 * 2^22 = 41.94..., so x < epsilon
\* exactly when x is at most epsilon units
epsilon == Scale \div 100000
\* float64 1/0
PosInf == 2^30
NoValue == 0 - 2^30

Outcome == 1..MaxOutcome
Slots == {"p", "q"}
\* a slot's domain either leaves the last outcome out or holds them all
Domains == {1..(MaxOutcome - 1), 1..MaxOutcome}
UniformDomains == {1..k : k \in 0..MaxUniform} \cup {1..BigDomain}

Half == Scale \div 2
Quarter == Scale \div 4
\* probabilities offered to AddOutcome
PValues == {0 - Quarter, 0, 20, 60, Half, Scale - 24, Scale, Scale + 20, 2 * Scale}
\* probabilities offered to AddOutcome on the second operand of Compose
QValues == {Half, Scale}
PValuesOf(s) == IF s = "p" THEN PValues ELSE QValues
\* alphas offered to Compose, all in [0,1]
Alphas == {0, Quarter, Half, 3 * Quarter, Scale}
\* values a random variable takes; a random variable is a function of the
\* outcome
XValues == {0 - 1, 0, 2}
RandomVariables == [Outcome -> XValues]
\* thresholds rand.Float64() may give Simulate, all in [0,1)
FValues == {0, 60, Half, Scale - 24, Scale - 4}

VARIABLES dists, call, err, ret, n
vars == <<dists, call, err, ret, n>>

\* ------------------------------------------------------------ arithmetic
Abs(x) == IF x < 0 THEN 0 - x ELSE x

\* x * y of two probabilities, in units; split in 11-bit halves so that no
\* intermediate exceeds 32 bits
Mul(x, y) ==
    LET h == 2^11
        x1 == x \div h
        x0 == x % h
        y1 == y \div h
        y0 == y % h
    IN  x1 * y1 + ((x1 * y0 + x0 * y1 + ((x0 * y0) \div h)) \div h)

\* Certain / Probability(k), rounded to the nearest unit; +Inf when k = 0
Div(x, k) == IF k = 0 THEN PosInf ELSE (2 * x + k) \div (2 * k)

Valid(p) == p >= 0 /\ p <= Certain

equiv(f1, f2) == Abs(f1 - f2) <= epsilon

\* ------------------------------------------------------- the distribution
NewDiscreteDistribution(d) == [domain |-> d, outcomes |-> {}, support |-> <<>>]

NoDist == [domain |-> {}, outcomes |-> {}, support |-> <<>>]

\* d.ProbabilityOf(o): the value, or the panic
ProbabilityOf(d, o) ==
    IF o \in DOMAIN d.support THEN [err |-> "", val |-> d.support[o]]
    ELSE IF o \in d.domain THEN [err |-> "", val |-> Impossible]
    ELSE [err |-> "outcome not in domain", val |-> NoValue]

RECURSIVE SumOver(_, _)
SumOver(d, S) ==
    IF S = {} THEN 0
    ELSE LET o == CHOOSE x \in S : TRUE
         IN  ProbabilityOf(d, o).val + SumOver(d, S \ {o})

Support(d) == SumOver(d, d.outcomes)

FullySupported(d) == equiv(Support(d), Certain)

Assigned(d, o, p) ==
    [domain |-> d.domain,
     outcomes |-> d.outcomes \cup {o},
     support |-> [x \in (DOMAIN d.support) \cup {o} |->
                     IF x = o THEN p ELSE d.support[x]]]

\* AddOutcome without the over-support assertion
AddOutcome_NoOverSupportCheck(d, o, p) ==
    IF equiv(Support(d), Certain)
      THEN [err |-> "distribution already fully supported", d |-> d]
    ELSE IF ~Valid(p)
      THEN [err |-> "invalid probability", d |-> d]
    ELSE IF equiv(p, 0)
      THEN [err |-> "probability zero", d |-> d]
    ELSE [err |-> "", d |-> Assigned(d, o, p)]

\* AddOutcome without the already-fully-supported assertion
AddOutcome_NoFullCheck(d, o, p) ==
    IF ~(Support(d) + p <= Certain + epsilon)
      THEN [err |-> "adding outcome would over-support", d |-> d]
    ELSE IF ~Valid(p)
      THEN [err |-> "invalid probability", d |-> d]
    ELSE IF equiv(p, 0)
      THEN [err |-> "probability zero", d |-> d]
    ELSE [err |-> "", d |-> Assigned(d, o, p)]

\* AddOutcome validating the probability before the mass
AddOutcome_ValidFirst(d, o, p) ==
    IF equiv(Support(d), Certain)
      THEN [err |-> "distribution already fully supported", d |-> d]
    ELSE IF ~Valid(p)
      THEN [err |-> "invalid probability", d |-> d]
    ELSE IF equiv(p, 0)
      THEN [err |-> "probability zero", d |-> d]
    ELSE IF ~(Support(d) + p <= Certain + epsilon)
      THEN [err |-> "adding outcome would over-support", d |-> d]
    ELSE [err |-> "", d |-> Assigned(d, o, p)]

\* AddOutcome refusing an outcome that already has a probability
AddOutcome_RejectDuplicate(d, o, p) ==
    IF equiv(Support(d), Certain)
      THEN [err |-> "distribution already fully supported", d |-> d]
    ELSE IF ~(Support(d) + p <= Certain + epsilon)
      THEN [err |-> "adding outcome would over-support", d |-> d]
    ELSE IF ~Valid(p)
      THEN [err |-> "invalid probability", d |-> d]
    ELSE IF equiv(p, 0)
      THEN [err |-> "probability zero", d |-> d]
    ELSE IF o \in d.outcomes
      THEN [err |-> "outcome already supported", d |-> d]
    ELSE [err |-> "", d |-> Assigned(d, o, p)]

\* AddOutcome assigning before it asserts that the probability is not zero
AddOutcome_AssignFirst(d, o, p) ==
    IF equiv(Support(d), Certain)
      THEN [err |-> "distribution already fully supported", d |-> d]
    ELSE IF ~(Support(d) + p <= Certain + epsilon)
      THEN [err |-> "adding outcome would over-support", d |-> d]
    ELSE IF ~Valid(p)
      THEN [err |-> "invalid probability", d |-> d]
    ELSE IF equiv(p, 0)
      THEN [err |-> "probability zero", d |-> Assigned(d, o, p)]
    ELSE [err |-> "", d |-> Assigned(d, o, p)]

\* d.AddOutcome(o, p): the panic message ("" when none) and the distribution
\* afterwards
AddOutcome(d, o, p) ==
    IF equiv(Support(d), Certain)
      THEN [err |-> "distribution already fully supported", d |-> d]
    ELSE IF ~(Support(d) + p <= Certain + epsilon)
      THEN [err |-> "adding outcome would over-support", d |-> d]
    ELSE IF ~Valid(p)
      THEN [err |-> "invalid probability", d |-> d]
    ELSE IF equiv(p, 0)
      THEN [err |-> "probability zero", d |-> d]
    ELSE [err |-> "", d |-> Assigned(d, o, p)]

\* ------------------------------------------------------------- iteration
\* the orders in which set.Iter() may deliver the elements of S; one order
\* only for a set too large to permute
Orders(S) ==
    IF Cardinality(S) >= BigDomain
      THEN {[i \in 1..Cardinality(S) |-> i]}
      ELSE {f \in [1..Cardinality(S) -> S] :
               \A i, j \in 1..Cardinality(S) : i # j => f[i] # f[j]}

\* the first k elements of an order
Taken(order, k) == [i \in 1..k |-> order[i]]

\* the loop of NewUniformDiscrete from position i on; a panic ends it.
\* taken is the number of elements the loop took from the iterator
RECURSIVE UniformLoop(_, _, _, _)
UniformLoop(d, order, i, individualSupport) ==
    IF i > Cardinality(d.domain) THEN [err |-> "", d |-> d, taken |-> i - 1]
    ELSE LET r == AddOutcome(d, order[i], individualSupport)
         IN  IF r.err # "" THEN [err |-> r.err, d |-> NoDist, taken |-> i]
             ELSE UniformLoop(r.d, order, i + 1, individualSupport)

NewUniformDiscrete(domain, order) ==
    UniformLoop(NewDiscreteDistribution(domain), order, 1,
                Div(Certain, Cardinality(domain)))

\* the loop of Compose from position i on
RECURSIVE ComposeLoop(_, _, _, _, _, _)
ComposeLoop(nd, p, q, alpha, order, i) ==
    IF i > Cardinality(nd.domain) THEN [err |-> "", d |-> nd, taken |-> i - 1]
    ELSE LET o == order[i]
             pp == ProbabilityOf(p, o)
             qp == ProbabilityOf(q, o)
         IN  IF pp.err # "" THEN [err |-> pp.err, d |-> NoDist, taken |-> i]
             ELSE IF qp.err # "" THEN [err |-> qp.err, d |-> NoDist, taken |-> i]
             ELSE LET cp == Mul(alpha, pp.val) + Mul(Certain - alpha, qp.val)
                  IN  IF cp = Impossible
                        THEN ComposeLoop(nd, p, q, alpha, order, i + 1)
                        ELSE LET r == AddOutcome(nd, o, cp)
                             IN  IF r.err # ""
                                   THEN [err |-> r.err, d |-> NoDist, taken |-> i]
                                   ELSE ComposeLoop(r.d, p, q, alpha, order, i + 1)

\* Compose without the domain assertion
Compose_NoDomainCheck(p, q, alpha, order) ==
    IF ~FullySupported(p)
      THEN [err |-> "first distribution is not fully supported", d |-> NoDist,
            taken |-> 0]
    ELSE IF ~FullySupported(q)
      THEN [err |-> "second distribution is not fully supported", d |-> NoDist,
            taken |-> 0]
    ELSE ComposeLoop(NewDiscreteDistribution(p.domain), p, q, alpha, order, 1)

\* Compose(p, q, alpha), the domain being iterated in the given order
Compose(p, q, alpha, order) ==
    IF ~FullySupported(p)
      THEN [err |-> "first distribution is not fully supported", d |-> NoDist,
            taken |-> 0]
    ELSE IF ~FullySupported(q)
      THEN [err |-> "second distribution is not fully supported", d |-> NoDist,
            taken |-> 0]
    ELSE IF p.domain # q.domain
      THEN [err |-> "domains of both distributions must be equivalent",
            d |-> NoDist, taken |-> 0]
    ELSE ComposeLoop(NewDiscreteDistribution(p.domain), p, q, alpha, order, 1)

\* math.Pow(x, n) for an integer x and n >= 0
RECURSIVE Pow(_, _)
Pow(x, k) == IF k = 0 THEN 1 ELSE x * Pow(x, k - 1)

RECURSIVE ExpectationOver(_, _, _)
ExpectationOver(d, X, S) ==
    IF S = {} THEN 0
    ELSE LET o == CHOOSE x \in S : TRUE
         IN  X[o] * ProbabilityOf(d, o).val + ExpectationOver(d, X, S \ {o})

\* Expectation(d, X), in units: the sum over d.Outcomes() of X(o) * p(o)
Expectation(d, X) == ExpectationOver(d, X, d.outcomes)

Moment(d, X, k) == Expectation(d, [o \in DOMAIN X |-> Pow(X[o], k)])

\* Variance(d, X), in units; the square of the first moment is rounded down
\* to a unit, so the value is the program's or up to one unit above it
Variance(d, X) == Moment(d, X, 2) - Mul(Moment(d, X, 1), Moment(d, X, 1))

\* the loop of Simulate with the comparison f <= p
RECURSIVE SimulateLoop_NotStrict(_, _, _, _, _, _)
SimulateLoop_NotStrict(d, order, i, f, p, last) ==
    IF i > Len(order) THEN [err |-> "", val |-> last]
    ELSE LET o == order[i]
             p2 == p + ProbabilityOf(d, o).val
         IN  IF f <= p2 THEN [err |-> "", val |-> o]
             ELSE SimulateLoop_NotStrict(d, order, i + 1, f, p2, o)

\* the loop of Simulate from position i on, p the running mass and last the
\* outcome visited last
RECURSIVE SimulateLoop(_, _, _, _, _, _)
SimulateLoop(d, order, i, f, p, last) ==
    IF i > Len(order) THEN [err |-> "", val |-> last]
    ELSE LET o == order[i]
             p2 == p + ProbabilityOf(d, o).val
         IN  IF f < p2 THEN [err |-> "", val |-> o]
             ELSE SimulateLoop(d, order, i + 1, f, p2, o)

\* Simulate comparing f <= p in its loop
Simulate_NotStrict(d, f, order) ==
    IF ~FullySupported(d)
      THEN [err |-> "discrete distribution not fully supported", val |-> NoValue]
      ELSE SimulateLoop_NotStrict(d, order, 1, f, 0, NoValue)

\* Simulate(d), rand.Float64() giving f and d.Outcomes() being iterated in
\* the given order
Simulate(d, f, order) ==
    IF ~FullySupported(d)
      THEN [err |-> "discrete distribution not fully supported", val |-> NoValue]
      ELSE SimulateLoop(d, order, 1, f, 0, NoValue)

\* the error kind of a panic message
ErrorKind(msg) ==
    CASE msg = "distribution already fully supported" -> "OverSupported"
      [] msg = "adding outcome would over-support" -> "OverSupported"
      [] msg = "invalid probability" -> "InvalidProbability"
      [] msg = "probability zero" -> "InvalidProbability"
      [] msg = "outcome not in domain" -> "OutcomeNotInDomain"
      [] msg = "first distribution is not fully supported" -> "NotFullySupported"
      [] msg = "second distribution is not fully supported" -> "NotFullySupported"
      [] msg = "domains of both distributions must be equivalent" -> "DomainMismatch"
      [] msg = "discrete distribution not fully supported" -> "NotFullySupported"
      [] OTHER -> ""

\* ------------------------------------------------------------------ state
\* the last call: the operation and its arguments (size is |domain| of a
\* NewUniformDiscrete call, order the elements the loop of the call took
\* from the domain's iterator, in the order it took them; for Simulate, f is
\* the threshold drawn and order the whole traversal of d.Outcomes(); for
\* AddOutcome, had tells whether the outcome had a probability before)
NoCall == [op |-> "", slot |-> "", o |-> 0, pr |-> 0, alpha |-> 0, size |-> 0,
           order |-> <<>>, f |-> 0, X |-> <<>>, had |-> FALSE]

Init ==
    /\ dists \in [Slots -> {NewDiscreteDistribution(dom) : dom \in Domains}]
    /\ call = NoCall
    /\ err = ""
    /\ ret = NoValue
    /\ n = NoDist

AddOutcomeOn(s) ==
    \E o \in Outcome :
      \E p \in PValuesOf(s) :
        LET r == AddOutcome(dists[s], o, p)
        IN  /\ dists' = [dists EXCEPT ![s] = r.d]
            /\ call' = [NoCall EXCEPT !.op = "AddOutcome", !.slot = s,
                                      !.o = o, !.pr = p,
                                      !.had = (o \in dists[s].outcomes)]
            /\ err' = r.err
            /\ ret' = NoValue
            /\ n' = NoDist

AddOutcomeCall == \E s \in Slots : AddOutcomeOn(s)

ProbabilityOfCall ==
    \E s \in Slots, o \in Outcome :
        LET r == ProbabilityOf(dists[s], o)
        IN  /\ call' = [NoCall EXCEPT !.op = "ProbabilityOf", !.slot = s, !.o = o]
            /\ err' = r.err
            /\ ret' = r.val
            /\ n' = NoDist
            /\ UNCHANGED dists

NewUniformDiscreteCall ==
    \E dom \in UniformDomains :
      \E order \in Orders(dom) :
        LET r == NewUniformDiscrete(dom, order)
        IN  /\ call' = [NoCall EXCEPT !.op = "NewUniformDiscrete",
                                      !.size = Cardinality(dom),
                                      !.order = Taken(order, r.taken)]
            /\ err' = r.err
            /\ ret' = NoValue
            /\ n' = r.d
            /\ UNCHANGED dists

ComposeCall ==
    \E alpha \in Alphas :
      \E order \in Orders(dists["p"].domain) :
        LET r == Compose(dists["p"], dists["q"], alpha, order)
        IN  /\ call' = [NoCall EXCEPT !.op = "Compose", !.alpha = alpha,
                                      !.order = Taken(order, r.taken)]
            /\ err' = r.err
            /\ ret' = NoValue
            /\ n' = r.d
            /\ UNCHANGED dists

Next ==
    \/ AddOutcomeCall
    \/ ProbabilityOfCall
    \/ ComposeCall

Spec == Init /\ [][Next]_vars

\* the constructor NewUniformDiscrete, applied to every domain and order
NextUniform == NewUniformDiscreteCall

SpecUniform == Init /\ [][NextUniform]_vars

\* Simulate(p); ret is the outcome returned
SimulateCall ==
    \E f \in FValues :
      \E order \in Orders(dists["p"].outcomes) :
        LET r == Simulate(dists["p"], f, order)
        IN  /\ call' = [NoCall EXCEPT !.op = "Simulate", !.slot = "p",
                                      !.f = f, !.order = order]
            /\ err' = r.err
            /\ ret' = r.val
            /\ n' = NoDist
            /\ UNCHANGED dists

\* Variance(p, X); ret is the variance
VarianceCall ==
    \E X \in RandomVariables :
        /\ call' = [NoCall EXCEPT !.op = "Variance", !.slot = "p", !.X = X]
        /\ err' = ""
        /\ ret' = Variance(dists["p"], X)
        /\ n' = NoDist
        /\ UNCHANGED dists

\* one distribution is built, sampled and measured
NextSingle ==
    \/ AddOutcomeOn("p")
    \/ SimulateCall
    \/ VarianceCall

SpecSingle == Init /\ [][NextSingle]_vars

\* ----------------------------------------------------------------- claims
\* the distribution a call acted on
Target == dists[call.slot]

\* C1: the total assigned mass of every distribution built by AddOutcome
\* calls never exceeds Certain + epsilon.
C1_MassBounded ==
    /\ \A s \in Slots : Support(dists[s]) <= Certain + epsilon
    /\ Support(n) <= Certain + epsilon

\* an accepted AddOutcome has taken the mass above Certain
C1_Witness ==
    /\ call.op = "AddOutcome"
    /\ err = ""
    /\ Support(Target) > Certain

\* C2: on a fully supported distribution every AddOutcome fails with
\* OverSupported, whatever the outcome and the probability, and the
\* distribution stays as it is, so it stays fully supported.
C2_FullSupportRejects ==
    [][\A s \in Slots :
         FullySupported(dists[s]) =>
            /\ dists'[s] = dists[s]
            /\ FullySupported(dists'[s])
            /\ (call'.op = "AddOutcome" /\ call'.slot = s)
                  => ErrorKind(err') = "OverSupported"]_vars

\* a valid probability for a new outcome was refused on a fully supported
\* distribution
C2_Witness ==
    /\ call.op = "AddOutcome"
    /\ err = "distribution already fully supported"
    /\ FullySupported(Target)
    /\ Valid(call.pr)
    /\ ~equiv(call.pr, 0)
    /\ call.o \notin Target.outcomes

\* the probability of the call is outside [0,1] or tolerance-zero
BadProbability(p) == ~Valid(p) \/ equiv(p, 0)

\* C3 as stated: on a distribution that is not fully supported, AddOutcome
\* with a probability outside [0,1] or tolerance-zero fails with
\* InvalidProbability.
C3_Original ==
    [][\A s \in Slots :
         (/\ call'.op = "AddOutcome"
          /\ call'.slot = s
          /\ ~FullySupported(dists[s])
          /\ BadProbability(call'.pr))
            => ErrorKind(err') = "InvalidProbability"]_vars

\* C3 amended: such a call fails and leaves the distribution alone; the kind
\* is OverSupported when Support(d) + p is not below Certain + epsilon and
\* InvalidProbability otherwise.
C3_Amended ==
    [][\A s \in Slots :
         (/\ call'.op = "AddOutcome"
          /\ call'.slot = s
          /\ ~FullySupported(dists[s])
          /\ BadProbability(call'.pr))
            => /\ dists'[s] = dists[s]
               /\ ErrorKind(err') =
                    IF Support(dists[s]) + call'.pr <= Certain + epsilon
                      THEN "InvalidProbability"
                      ELSE "OverSupported"]_vars

\* a probability above 1 was refused as invalid
C3_Witness ==
    /\ call.op = "AddOutcome"
    /\ call.pr > Certain
    /\ ~FullySupported(Target)
    /\ ErrorKind(err) = "InvalidProbability"

\* C4: ProbabilityOf(o) returns the recorded probability when o has one,
\* Impossible when o is a domain member without one, and fails with
\* OutcomeNotInDomain for every o outside the domain.
C4_ProbabilityOf ==
    call.op = "ProbabilityOf" =>
        /\ call.o \in DOMAIN Target.support
              => (err = "" /\ ret = Target.support[call.o])
        /\ (call.o \notin DOMAIN Target.support /\ call.o \in Target.domain)
              => (err = "" /\ ret = Impossible)
        /\ call.o \notin Target.domain
              => ErrorKind(err) = "OutcomeNotInDomain"

\* C5: the outcomes with assigned probability are a subset of the domain.
C5_OutcomesInDomain ==
    \A s \in Slots : dists[s].outcomes \subseteq dists[s].domain

\* C6: over a non-empty domain NewUniformDiscrete returns a fully supported
\* distribution whose outcomes are the domain, each with probability
\* 1/|domain| within tolerance.
C6_Uniform ==
    (call.op = "NewUniformDiscrete" /\ call.size > 0) =>
        /\ err = ""
        /\ FullySupported(n)
        /\ n.outcomes = 1..call.size
        /\ \A o \in 1..call.size :
              equiv(ProbabilityOf(n, o).val, Div(Certain, call.size))

\* C7: NewUniformDiscrete over the empty domain fails and returns no
\* distribution.
C7_UniformEmptyFails ==
    (call.op = "NewUniformDiscrete" /\ call.size = 0) => err # ""

\* C8: Compose fails with NotFullySupported when p or q is not fully
\* supported, with DomainMismatch when both are but the domains differ, and
\* returns a distribution only when both preconditions hold.
C8_ComposePreconditions ==
    call.op = "Compose" =>
        LET p == dists["p"]
            q == dists["q"]
        IN  /\ (~FullySupported(p) \/ ~FullySupported(q))
                  => (ErrorKind(err) = "NotFullySupported" /\ n = NoDist)
            /\ (FullySupported(p) /\ FullySupported(q) /\ p.domain # q.domain)
                  => (ErrorKind(err) = "DomainMismatch" /\ n = NoDist)
            /\ err = ""
                  => (FullySupported(p) /\ FullySupported(q) /\ p.domain = q.domain)

\* two fully supported distributions over different domains were refused
C8_Witness ==
    /\ call.op = "Compose"
    /\ ErrorKind(err) = "DomainMismatch"
    /\ FullySupported(dists["p"])
    /\ FullySupported(dists["q"])

\* Compose was called on operands that meet both preconditions, each a
\* distribution over its domain (no outcome outside it)
ComposeApplies ==
    /\ call.op = "Compose"
    /\ FullySupported(dists["p"])
    /\ FullySupported(dists["q"])
    /\ dists["p"].domain = dists["q"].domain
    /\ \A s \in Slots : dists[s].outcomes \subseteq dists[s].domain

\* C9: for fully supported p and q over equivalent domains and alpha in
\* [0,1], Compose returns without error a distribution of mass Certain
\* within epsilon giving each outcome o of the domain
\* alpha*p(o) + (1-alpha)*q(o).
C9_ComposeMixture ==
    ComposeApplies =>
        /\ err = ""
        /\ equiv(Support(n), Certain)
        /\ \A o \in dists["p"].domain :
              ProbabilityOf(n, o).val =
                  Mul(call.alpha, ProbabilityOf(dists["p"], o).val)
                  + Mul(Certain - call.alpha, ProbabilityOf(dists["q"], o).val)

\* C10: Compose(p, q, 1) succeeds and agrees with p on every outcome, and
\* Compose(p, q, 0) succeeds and agrees with q, in every iteration order.
C10_ComposeIdentity ==
    /\ (ComposeApplies /\ call.alpha = Certain) =>
          /\ err = ""
          /\ \A o \in dists["p"].domain :
                equiv(ProbabilityOf(n, o).val, ProbabilityOf(dists["p"], o).val)
    /\ (ComposeApplies /\ call.alpha = 0) =>
          /\ err = ""
          /\ \A o \in dists["q"].domain :
                equiv(ProbabilityOf(n, o).val, ProbabilityOf(dists["q"], o).val)
\* the mass of the first k outcomes of the traversal of a Simulate call
RECURSIVE Cumulative(_)
Cumulative(k) ==
    IF k = 0 THEN 0
    ELSE Cumulative(k - 1) + ProbabilityOf(Target, call.order[k]).val

\* C11: Simulate fails on a distribution that is not fully supported; on a
\* fully supported one it returns, for every threshold and traversal order,
\* the first outcome of the traversal whose cumulative mass strictly exceeds
\* f, or the last outcome of the traversal when none does; the outcome
\* returned is a member of d.Outcomes().
C11_Simulate ==
    call.op = "Simulate" =>
        LET len == Len(call.order)
            Exceeds == {k \in 1..len : call.f < Cumulative(k)}
        IN  /\ ~FullySupported(Target)
                  => ErrorKind(err) = "NotFullySupported"
            /\ FullySupported(Target) =>
                  /\ err = ""
                  /\ ret \in Target.outcomes
                  /\ Exceeds # {} =>
                        \E k \in Exceeds :
                            /\ ret = call.order[k]
                            /\ \A j \in Exceeds : k <= j
                  /\ Exceeds = {} => ret = call.order[len]

\* Simulate returned an outcome that is not the first of the traversal
C11_Witness ==
    /\ call.op = "Simulate"
    /\ err = ""
    /\ Len(call.order) > 1
    /\ ret = call.order[2]
    /\ call.f < Cumulative(2)
\* C12: Variance(d, X) is at least -epsilon for every distribution built by
\* AddOutcome calls and every random variable X.
C12_VarianceNotNegative ==
    call.op = "Variance" => ret >= 0 - epsilon
\* the probability p passes the mass and validity checks of AddOutcome on d
PassesChecks(d, p) ==
    /\ ~equiv(Support(d), Certain)
    /\ Support(d) + p <= Certain + epsilon
    /\ Valid(p)
    /\ ~equiv(p, 0)

\* C13: AddOutcome(o, p2) on an outcome that already has a probability is
\* not refused as a duplicate: when p2 passes the mass and validity checks
\* the call succeeds, records p2 for o, and leaves the outcomes set, the
\* cardinality and every other outcome's probability as they were.
C13_Overwrite ==
    [][\A s \in Slots :
         (/\ call'.op = "AddOutcome"
          /\ call'.slot = s
          /\ call'.o \in dists[s].outcomes
          /\ PassesChecks(dists[s], call'.pr))
            => /\ err' = ""
               /\ dists'[s].support[call'.o] = call'.pr
               /\ dists'[s].outcomes = dists[s].outcomes
               /\ Cardinality(dists'[s].outcomes) = Cardinality(dists[s].outcomes)
               /\ DOMAIN dists'[s].support = DOMAIN dists[s].support
               /\ \A x \in dists[s].outcomes \ {call'.o} :
                     dists'[s].support[x] = dists[s].support[x]]_vars

\* an outcome that had a probability was given another, next to a second
\* outcome
C13_Witness ==
    /\ call.op = "AddOutcome"
    /\ call.had
    /\ err = ""
    /\ Cardinality(Target.outcomes) > 1

\* C14: an AddOutcome call that fails, with OverSupported or
\* InvalidProbability, leaves the outcomes set and the support map as they
\* were.
C14_FailureAssignsNothing ==
    [][\A s \in Slots :
         (call'.op = "AddOutcome" /\ call'.slot = s /\ err' # "")
            => /\ ErrorKind(err') \in {"OverSupported", "InvalidProbability"}
               /\ dists'[s].outcomes = dists[s].outcomes
               /\ dists'[s].support = dists[s].support]_vars

\* a tolerance-zero probability for a new outcome was refused on a
\* distribution that holds outcomes
C14_Witness ==
    /\ call.op = "AddOutcome"
    /\ err = "probability zero"
    /\ ~call.had
    /\ Target.outcomes # {}
    /\ call.o \notin Target.outcomes
====
